---- MODULE Spec2Model ----
(***************************************************************************)
(* Verification model of the MaRGE reconstruction utilities                *)
(* (src/marge_utils/utils.py): the shifted Fourier transforms, the         *)
(* zero-padding resampler, the Hanning and Cosbell apodization filters and *)
(* the control structure of the POCS partial-Fourier reconstruction.       *)
(*                                                                         *)
(* A volume is a record [shape |-> <<n0, n1, n2>>, v |-> f] where f maps   *)
(* every index triple <<i0, i1, i2>> (zero based, as in numpy) to a        *)
(* sample.  Axis a of the source is component a + 1 of a triple.           *)
(***************************************************************************)
EXTENDS Integers, Sequences, FiniteSets, TLC

VARIABLES
    pc,                 \* position of the call that is being executed
    image,              \* run_dfft: the spatial-domain input
    k_space,            \* run_dfft: the returned k-space; run_zero_padding: its input
    image_back,         \* run_ifft: the image returned for k_space
    new_size,           \* run_zero_padding: requested size (rd, ph, sl)
    image_matrix,       \* run_zero_padding: the returned volume, or Raised
    kSpace,             \* hanning_filter: the input volume
    mm,                 \* hanning_filter / POCS: cutoffs per axis
    nb_point,           \* hanning_filter / POCS: ramp length
    kSpace_hanning,     \* hanning_filter: the returned volume, or Raised
    sampled,            \* run_cosbell_filter: n x 3 coordinate matrix
    data,               \* run_cosbell_filter: the caller's k-space buffer
    data_in,            \* run_cosbell_filter: the buffer as it was passed in
    cosbell_order,      \* run_cosbell_filter: exponent per direction
    factors,            \* POCS: partial-Fourier fractions (rd, ph, sl), in quarters
    k_space_ref,        \* POCS: the acquired k-space
    m,                  \* POCS: half widths of the phase-reference box
    num_iterations,     \* POCS: the iteration counter
    previous_img,       \* POCS: estimate the next iteration starts from
    img_reconstructed,  \* POCS: estimate computed by the last iteration
    correlation,        \* POCS: corrcoef of the two estimates
    body_runs,          \* POCS: executions of the loop body so far
    returned,           \* POCS: the value handed back to the caller
    phase,              \* POCS: the phase map
    k_space_new,        \* POCS: the k-space the last iteration inverse-transformed
    n_points,           \* POCS: the axis lengths the caller passed
    std,                \* run_bm4d_filter: the local std
    std_in,             \* run_bm4d_filter: std as the caller passed it
    estimated,          \* run_bm4d_filter: what the block estimator yields for the image
    sigma_psd,          \* run_bm4d_filter: noise level handed to bm4d.bm4d
    added_rfs,          \* RfWidget: list of (identifier, efficiency) entries
    rf_rows,            \* RfWidget: the row layouts of dynamic_container
    antenna_dict,       \* RfWidget: coil entries written into hw.antenna_dict
    rf_op,              \* RfWidget: the handler that ran last
    input_boxes,        \* RfWidget: text of the input box of every label
    hw,                 \* RfWidget: the hardware-configuration fields
    rf_file,            \* RfWidget: configs/hw_rf.csv
    added_rps,          \* RpWidget: list of (identifier, ip) entries
    rp_rows,            \* RpWidget: the row layouts of dynamic_container
    rp_counter,         \* RpWidget: counter for identifiers
    rp_ip_list,         \* RpWidget: hw.rp_ip_list
    rp_file             \* RpWidget: ../configs/hw_redpitayas.csv

vars == << pc, image, k_space, image_back, new_size, image_matrix,
           kSpace, mm, nb_point, kSpace_hanning, sampled, data, data_in,
           cosbell_order, factors, k_space_ref, m, num_iterations,
           previous_img, img_reconstructed, correlation, body_runs, returned,
           phase, k_space_new, n_points, std, std_in, estimated, sigma_psd, added_rfs,
           rf_rows, antenna_dict, rf_op, input_boxes, hw, rf_file, added_rps,
           rp_rows, rp_counter, rp_ip_list, rp_file >>

fftVars    == << image, k_space, image_back >>
zpVars     == << new_size, image_matrix >>
hanVars    == << kSpace, kSpace_hanning >>
cutVars    == << mm, nb_point >>
cosVars    == << sampled, data, data_in, cosbell_order >>
pocsVars   == << factors, k_space_ref, m, num_iterations, previous_img,
                 img_reconstructed, correlation, body_runs, returned,
                 phase, k_space_new, n_points >>
bmVars     == << std, std_in, estimated, sigma_psd >>
rfVars     == << added_rfs, rf_rows, antenna_dict, rf_op, input_boxes, hw,
                 rf_file >>
rpVars     == << added_rps, rp_rows, rp_counter, rp_ip_list, rp_file >>
widgetVars == << bmVars, rfVars, rpVars >>

(***************************************************************************)
(* Values every variable holds while its function is not the one called.   *)
(***************************************************************************)
Idle == "idle"
IdleZp   == new_size = Idle /\ image_matrix = Idle
IdleHan  == kSpace = Idle /\ kSpace_hanning = Idle
IdleCos  == sampled = Idle /\ data = Idle /\ data_in = Idle /\ cosbell_order = Idle
IdleLoop == /\ factors = Idle /\ k_space_ref = Idle /\ m = Idle
            /\ num_iterations = Idle /\ previous_img = Idle
            /\ img_reconstructed = Idle /\ correlation = Idle
            /\ body_runs = Idle /\ returned = Idle
            /\ phase = Idle /\ k_space_new = Idle /\ n_points = Idle
IdlePocs == IdleLoop /\ mm = Idle /\ nb_point = Idle
IdleBm   == std = Idle /\ std_in = Idle /\ estimated = Idle /\ sigma_psd = Idle
IdleRf   == /\ added_rfs = Idle /\ rf_rows = Idle /\ antenna_dict = Idle
            /\ rf_op = Idle /\ input_boxes = Idle /\ hw = Idle
            /\ rf_file = Idle
IdleRp   == /\ added_rps = Idle /\ rp_rows = Idle /\ rp_counter = Idle
            /\ rp_ip_list = Idle /\ rp_file = Idle

(***************************************************************************)
(* numpy indexing helpers.                                                 *)
(***************************************************************************)
Axes == 1..3

Idx(shape) == (0..(shape[1] - 1)) \X (0..(shape[2] - 1)) \X (0..(shape[3] - 1))

Shapes(maxlen) == (1..maxlen) \X (1..maxlen) \X (1..maxlen)

Size(shape) == shape[1] * shape[2] * shape[3]

Min(a, b) == IF a < b THEN a ELSE b

Max(a, b) == IF a < b THEN b ELSE a

Abs(a) == IF a < 0 THEN -a ELSE a

(***************************************************************************)
(* Spectral transform: run_dfft and run_ifft.                              *)
(*                                                                         *)
(* numpy computes the discrete Fourier transform over the complex numbers. *)
(* The model computes the same transform over the field of integers modulo *)
(* Prime, in which Gen generates the multiplicative group, so that every   *)
(* axis length n dividing Prime - 1 has a primitive n-th root of unity     *)
(* Root(n) (the stand-in for exp(-2 pi i / n)) and the inversion, shift    *)
(* and modulation theorems of the transform hold exactly; Imag is a square *)
(* root of -1.  Equality of two volumes in the model is exact equality,    *)
(* the counterpart of equality up to rounding.                             *)
(***************************************************************************)
Prime == 61

Gen == 2

Imag == 11

MaxAxis == 3

RECURSIVE Pow(_, _)
Pow(b, e) == IF e = 0 THEN 1 ELSE (b * Pow(b, e - 1)) % Prime

Inv(a) == Pow(a, Prime - 2)

Root(n) == Pow(Gen, (Prime - 1) \div n)

RECURSIVE SumTo(_, _)
SumTo(f, n) == IF n = 0 THEN 0 ELSE (f[n - 1] + SumTo(f, n - 1)) % Prime

WithAxis(j, a, i) == [j EXCEPT ![a] = i]

\* One-dimensional transform of every line of arr along axis a, with w as
\* the root of unity: out[k] = sum over j of in[j] * w^(j*k).
Dft1(arr, a, w) ==
    LET n == arr.shape[a]
    IN  [arr EXCEPT !.v =
            [k \in Idx(arr.shape) |->
                SumTo([j \in 0..(n - 1) |->
                          (arr.v[WithAxis(k, a, j)] * Pow(w, (j * k[a]) % n)) % Prime],
                      n)]]

\* np.fft.fftn: the forward transform over all three axes.
fftn(arr) ==
    Dft1(Dft1(Dft1(arr, 1, Root(arr.shape[1])), 2, Root(arr.shape[2])),
         3, Root(arr.shape[3]))

\* np.fft.ifftn: the inverse transform, conjugate root and 1/N scaling.
ifftn(arr) ==
    LET t == Dft1(Dft1(Dft1(arr, 1, Inv(Root(arr.shape[1]))),
                       2, Inv(Root(arr.shape[2]))),
                  3, Inv(Root(arr.shape[3])))
        s == Inv(Size(arr.shape) % Prime)
    IN  [t EXCEPT !.v = [k \in Idx(arr.shape) |-> (t.v[k] * s) % Prime]]

\* np.roll along every axis: out[(i + shift) mod n] = in[i].
Roll(arr, shift) ==
    [arr EXCEPT !.v =
        [j \in Idx(arr.shape) |->
            arr.v[<< (j[1] - shift[1]) % arr.shape[1],
                     (j[2] - shift[2]) % arr.shape[2],
                     (j[3] - shift[3]) % arr.shape[3] >>]]]

\* np.fft.fftshift: roll every axis by n // 2.
fftshift(arr) == Roll(arr, [a \in Axes |-> arr.shape[a] \div 2])

\* np.fft.ifftshift: roll every axis by -(n // 2).
ifftshift(arr) == Roll(arr, [a \in Axes |-> -(arr.shape[a] \div 2)])

run_dfft(img) == fftshift(fftn(ifftshift(img)))

run_ifft(ksp) == ifftshift(ifftn(fftshift(ksp)))

\* Inputs of the transforms: every volume with a single non-zero sample of
\* value 1 or Imag (the transform is linear, so these span the rest).
Amplitudes == {1, Imag}

Impulse(shape, at, amp) ==
    [shape |-> shape, v |-> [j \in Idx(shape) |-> IF j = at THEN amp ELSE 0]]

FftInputs ==
    UNION { { Impulse(shape, at, amp) : at \in Idx(shape), amp \in Amplitudes }
            : shape \in Shapes(MaxAxis) }

InitFft ==
    /\ pc = "fft_call"
    /\ image \in FftInputs
    /\ k_space = Idle /\ image_back = Idle
    /\ IdleZp /\ IdleHan /\ IdleCos /\ IdlePocs /\ IdleBm /\ IdleRf /\ IdleRp

CallDfft ==
    /\ pc = "fft_call"
    /\ k_space' = run_dfft(image)
    /\ pc' = "fft_forward"
    /\ UNCHANGED << image, image_back, zpVars, hanVars, cutVars, cosVars, pocsVars, widgetVars >>

CallIfft ==
    /\ pc = "fft_forward"
    /\ image_back' = run_ifft(k_space)
    /\ pc' = "fft_done"
    /\ UNCHANGED << image, k_space, zpVars, hanVars, cutVars, cosVars, pocsVars, widgetVars >>

NextFft == CallDfft \/ CallIfft

SpecFft == InitFft /\ [][NextFft]_vars

\* C1: run_ifft(run_dfft(x)) equals x element-wise for every volume x,
\* whatever the parity of its axis lengths.
RoundTripIsIdentity ==
    pc = "fft_done" =>
        \A j \in Idx(image.shape) : image_back.v[j] = image.v[j]

\* The round trip does hold on volumes all of whose axes have even length
\* or length 1.
RoundTripEvenAxes ==
    (pc = "fft_done" /\ \A a \in Axes : image.shape[a] % 2 = 0 \/ image.shape[a] = 1)
        => \A j \in Idx(image.shape) : image_back.v[j] = image.v[j]

(***************************************************************************)
(* Zero-padding resampler: run_zero_padding.                               *)
(***************************************************************************)
MaxLen == 3

\* The value of a volume variable nothing has been assigned to.
NoVolume == [ok |-> FALSE, shape |-> << 0, 0, 0 >>, v |-> << >>]

\* A raised exception in place of a returned volume.
RaisedVolume == NoVolume

\* The input volumes: every sample carries a distinct non-zero label.
Label(i) == 1 + 100 * i[1] + 10 * i[2] + i[3]

Labelled(shape) == [shape |-> shape, v |-> [i \in Idx(shape) |-> Label(i)]]

\* offset_a = (shape_1[a] - shape_0[a]) // 2
ZpOffset(t, s) == (t - s) \div 2

\* new_start_a = offset_a if offset_a >= 0 else 0
ZpNewStart(t, s) == IF ZpOffset(t, s) >= 0 THEN ZpOffset(t, s) ELSE 0

\* new_end_a = new_start_a + shape_0[a] if offset_a > 0 else shape_1[a]
ZpNewEnd(t, s) == IF ZpOffset(t, s) > 0 THEN ZpNewStart(t, s) + s ELSE t

\* old_start_a = 0 if offset_a >= 0 else -offset_a
ZpOldStart(t, s) == IF ZpOffset(t, s) >= 0 THEN 0 ELSE -ZpOffset(t, s)

\* old_end_a = shape_0[a] if offset_a >= 0 else old_start_a + shape_1[a]
ZpOldEnd(t, s) == IF ZpOffset(t, s) >= 0 THEN s ELSE ZpOldStart(t, s) + t

\* The indices a[start:end] selects on an axis of length len (both bounds
\* non-negative): numpy clips the bounds to the axis.
SliceLo(start, len) == Min(start, len)

SliceLen(start, end, len) == Max(0, Min(end, len) - Min(start, len))

\* dst[d1:d2, ...] = src[s1:s2, ...]: on every axis the source slice must be
\* as long as the destination slice or have length 1 (it is then repeated);
\* otherwise numpy raises ValueError.
SliceAssign(dst, dlo, dhi, src, slo, shi) ==
    LET dl(a) == SliceLen(dlo[a], dhi[a], dst.shape[a])
        sl(a) == SliceLen(slo[a], shi[a], src.shape[a])
        d0(a) == SliceLo(dlo[a], dst.shape[a])
        s0(a) == SliceLo(slo[a], src.shape[a])
        from(j, a) == IF sl(a) = 1 THEN s0(a) ELSE s0(a) + (j[a] - d0(a))
        inside(j) == \A a \in Axes : j[a] >= d0(a) /\ j[a] < d0(a) + dl(a)
    IN  IF \E a \in Axes : sl(a) # dl(a) /\ sl(a) # 1
        THEN RaisedVolume
        ELSE [ok |-> TRUE, shape |-> dst.shape,
              v |-> [j \in Idx(dst.shape) |->
                        IF inside(j)
                        THEN src.v[<< from(j, 1), from(j, 2), from(j, 3) >>]
                        ELSE dst.v[j]]]

run_zero_padding(ksp, size) ==
    LET s0 == ksp.shape
        s1 == << size[3], size[2], size[1] >>
        zeros == [shape |-> s1, v |-> [j \in Idx(s1) |-> 0]]
    IN  SliceAssign(zeros,
                    [a \in Axes |-> ZpNewStart(s1[a], s0[a])],
                    [a \in Axes |-> ZpNewEnd(s1[a], s0[a])],
                    ksp,
                    [a \in Axes |-> ZpOldStart(s1[a], s0[a])],
                    [a \in Axes |-> ZpOldEnd(s1[a], s0[a])])

InitZp ==
    /\ pc = "zp_call"
    /\ k_space \in { Labelled(shape) : shape \in Shapes(MaxLen) }
    /\ new_size \in Shapes(MaxLen + 1)
    /\ image_matrix = Idle
    /\ image = Idle /\ image_back = Idle
    /\ IdleHan /\ IdleCos /\ IdlePocs /\ IdleBm /\ IdleRf /\ IdleRp

CallZeroPadding ==
    /\ pc = "zp_call"
    /\ image_matrix' = run_zero_padding(k_space, new_size)
    /\ pc' = "zp_done"
    /\ UNCHANGED << fftVars, new_size, hanVars, cutVars, cosVars, pocsVars, widgetVars >>

NextZp == CallZeroPadding

SpecZp == InitZp /\ [][NextZp]_vars

\* The shape the caller asked for, in (sl, ph, rd) storage order.
ZpTarget == << new_size[3], new_size[2], new_size[1] >>

\* The source index the centring rule assigns to destination index j.
ZpSourceOf(j) == [a \in Axes |-> j[a] - ZpOffset(ZpTarget[a], k_space.shape[a])]

\* C5: run_zero_padding returns, for every pair of shapes, a volume of the
\* target shape in which destination index j holds the source sample at
\* j - offset on every axis where that index exists (so offset + i holds
\* source i when growing, j holds j - offset when shrinking) and zero
\* everywhere else.
ZeroPaddingCentres ==
    pc = "zp_done" =>
        /\ image_matrix.ok
        /\ image_matrix.shape = ZpTarget
        /\ \A j \in Idx(ZpTarget) :
              image_matrix.v[j] =
                  IF << ZpSourceOf(j)[1], ZpSourceOf(j)[2], ZpSourceOf(j)[3] >>
                        \in Idx(k_space.shape)
                  THEN k_space.v[<< ZpSourceOf(j)[1], ZpSourceOf(j)[2], ZpSourceOf(j)[3] >>]
                  ELSE 0

\* The rule of C5 does hold whenever no axis of the target is exactly one
\* longer than the source.
ZeroPaddingCentresExceptPlusOne ==
    (\A a \in Axes : ZpTarget[a] # k_space.shape[a] + 1) => ZeroPaddingCentres

\* C6: whenever run_zero_padding returns a volume, the source sample at the
\* centre index floor(n/2) of every axis sits at the centre index
\* floor(N/2) of the output.
ZeroPaddingKeepsCentre ==
    (pc = "zp_done" /\ image_matrix.ok) =>
        image_matrix.v[<< ZpTarget[1] \div 2, ZpTarget[2] \div 2, ZpTarget[3] \div 2 >>]
            = k_space.v[<< k_space.shape[1] \div 2, k_space.shape[2] \div 2,
                           k_space.shape[3] \div 2 >>]

\* The centre is kept unless some axis goes from an odd to an even length.
ZeroPaddingKeepsCentreParity ==
    (\A a \in Axes : ~(k_space.shape[a] % 2 = 1 /\ ZpTarget[a] % 2 = 0))
        => ZeroPaddingKeepsCentre

(***************************************************************************)
(* Hanning edge filter: hanning_filter.                                    *)
(*                                                                         *)
(* A sample of the filtered volume is kept symbolically: src is the index  *)
(* of the input sample it was copied from, zero says that its value is     *)
(* exactly 0, and w[a] lists, in the order of application, the positions   *)
(* in the half window of the weights it was multiplied by along axis a.    *)
(***************************************************************************)
MaxExtent == 3

MaxRamp == 3

Symbolic(shape) ==
    [ok |-> TRUE, shape |-> shape,
     v |-> [i \in Idx(shape) |->
              [src |-> i, zero |-> FALSE, w |-> << << >>, << >>, << >> >>]]]

\* kSpace_hanning[mm[0]::, :, :] = 0.0 and the same for axes 1 and 2.
HanTruncateOnly(arr, c) ==
    [arr EXCEPT !.v =
        [j \in Idx(arr.shape) |->
            IF \A a \in Axes : j[a] >= c[a]
            THEN [arr.v[j] EXCEPT !.zero = TRUE]
            ELSE arr.v[j]]]

HanTruncate(arr, c) ==
    [arr EXCEPT !.v =
        [j \in Idx(arr.shape) |->
            IF \E a \in Axes : j[a] >= c[a]
            THEN [arr.v[j] EXCEPT !.zero = TRUE]
            ELSE arr.v[j]]]

\* np.hanning(2 * nb)[nb:][k] = 0.5 - 0.5 * cos(2 pi (nb + k) / (2 nb - 1)),
\* which is 0 exactly when nb + k = 2 nb - 1.
HanWeightIsZero(nb, k) == nb + k = 2 * nb - 1

\* The index the ii-th weight is applied to.
HanRampIndexPreceding(c, nb, ii) == c - nb + ii

HanRampIndex(c, nb, ii) == c - nb + ii + 1

\* a[i] for an integer i: negative indices count from the end of the axis.
IndexInRange(i, n) == i >= -n /\ i < n

NormIndex(i, n) == IF i < 0 THEN i + n ELSE i

\* kSpace_hanning[.., i, ..] *= hanning_window[ii] on axis a.
HanScale(arr, a, i, nb, ii) ==
    [arr EXCEPT !.v =
        [j \in Idx(arr.shape) |->
            IF j[a] = NormIndex(i, arr.shape[a])
            THEN [arr.v[j] EXCEPT !.zero = @ \/ HanWeightIsZero(nb, ii),
                                  !.w[a] = Append(@, ii)]
            ELSE arr.v[j]]]

\* for ii in range(nb_point): ... , from iteration ii on; an index outside
\* the axis raises IndexError and ends the call.
RECURSIVE HanRampFrom(_, _, _, _, _)
HanRampFrom(arr, a, c, nb, ii) ==
    IF ~arr.ok \/ ii >= nb
    THEN arr
    ELSE IF ~IndexInRange(HanRampIndex(c, nb, ii), arr.shape[a])
         THEN RaisedVolume
         ELSE HanRampFrom(HanScale(arr, a, HanRampIndex(c, nb, ii), nb, ii),
                          a, c, nb, ii + 1)

\* if not mm[a] == np.size(kSpace, a): the ramp loop of axis a.
HanRamp(arr, a, c, nb) ==
    IF ~arr.ok \/ c[a] = arr.shape[a] THEN arr ELSE HanRampFrom(arr, a, c[a], nb, 0)

hanning_filter(ksp, c, nb) ==
    HanRamp(HanRamp(HanRamp(HanTruncate(ksp, c), 1, c, nb), 2, c, nb), 3, c, nb)

Cutoffs(shape) == (0..shape[1]) \X (0..shape[2]) \X (0..shape[3])

InitHan ==
    /\ pc = "han_call"
    /\ kSpace \in { Symbolic(shape) : shape \in Shapes(MaxExtent) }
    /\ mm \in Cutoffs(kSpace.shape)
    /\ nb_point \in 1..MaxRamp
    /\ kSpace_hanning = Idle
    /\ image = Idle /\ k_space = Idle /\ image_back = Idle
    /\ IdleZp /\ IdleCos /\ IdleLoop /\ IdleBm /\ IdleRf /\ IdleRp

CallHanningFilter ==
    /\ pc = "han_call"
    /\ kSpace_hanning' = hanning_filter(kSpace, mm, nb_point)
    /\ pc' = "han_done"
    /\ UNCHANGED << fftVars, zpVars, kSpace, cutVars, cosVars, pocsVars, widgetVars >>

NextHan == CallHanningFilter

SpecHan == InitHan /\ [][NextHan]_vars

\* C7: in the volume hanning_filter returns, every sample whose index on
\* at least one axis is at or beyond that axis's cutoff is zero.
HanningZeroBeyondCutoff ==
    (pc = "han_done" /\ kSpace_hanning.ok) =>
        \A j \in Idx(kSpace.shape) :
            (\E a \in Axes : j[a] >= mm[a]) => kSpace_hanning.v[j].zero

\* A call that returns a volume truncated on one axis only, with a ramp
\* that lies inside the axis.
HanningTruncatedCase ==
    /\ pc = "han_done" /\ kSpace_hanning.ok
    /\ mm[1] = kSpace.shape[1] /\ mm[2] = kSpace.shape[2]
    /\ mm[3] < kSpace.shape[3] /\ mm[3] >= nb_point
    /\ kSpace.shape[1] > 1

\* The weights that reach index i of axis a when weight k is applied to
\* index first + k, in the order of k.
HanWeightsAt(a, i, first) ==
    SelectSeq([k \in 1..nb_point |-> k - 1],
              LAMBDA k : IndexInRange(first + k, kSpace.shape[a])
                         /\ NormIndex(first + k, kSpace.shape[a]) = i)

MaxPoints == 2

MaxOrder == 1

ColumnKinds == {"zero", "ramp"}

\* Row r of a coordinate column of n rows: all zero, or centred steps.
Coordinate(kind, r, n) == IF kind = "zero" THEN 0 ELSE r - (n \div 2)

Coordinates(n, kinds) ==
    [rows |-> n,
     k |-> [r \in 0..(n - 1) |-> [c \in Axes |-> Coordinate(kinds[c], r, n)]]]

NoFactor == [kind |-> "none", num |-> 0, den |-> 0, ord |-> 0]

Unfiltered(shape) ==
    [shape |-> shape,
     v |-> [i \in Idx(shape) |->
              [src |-> i, nan |-> FALSE, f |-> [c \in Axes |-> NoFactor]]]]

\* Position of index j in the flattened (C order) volume.
FlatIndex(j, shape) == (j[1] * shape[2] + j[2]) * shape[3] + j[3]

\* np.reshape(sampled[:, c], n_points) raises ValueError unless the column
\* has as many rows as the volume has samples.
CosbellReshapeFails(smp, shape) == smp.rows # Size(shape)

RECURSIVE MaxAbsTo(_, _, _)
MaxAbsTo(smp, c, n) ==
    IF n = 0 THEN 0 ELSE Max(Abs(smp.k[n - 1][c]), MaxAbsTo(smp, c, n - 1))

\* kmax = np.max(np.abs(k[:]))
Kmax(smp, c) == MaxAbsTo(smp, c, smp.rows)

\* np.cos((k / kmax) * (np.pi / 2)) ** order for one sample: anything, NaN
\* included, to the power 0 is 1; 0 / 0 is NaN and stays NaN through cos
\* and a non-zero power; cos(0) is 1.
CosbellFactor(k, kmax, order) ==
    IF order = 0 THEN [kind |-> "one", num |-> 0, den |-> 0, ord |-> 0]
    ELSE IF kmax = 0 THEN [kind |-> "nan", num |-> 0, den |-> 0, ord |-> order]
    ELSE IF k = 0 THEN [kind |-> "one", num |-> 0, den |-> 0, ord |-> 0]
    ELSE [kind |-> "cos", num |-> Abs(k), den |-> kmax, ord |-> order]

\* data *= factor, in place, for direction c.
CosbellScale(dat, c, smp, order) ==
    [dat EXCEPT !.v =
        [j \in Idx(dat.shape) |->
            LET fac == CosbellFactor(smp.k[FlatIndex(j, dat.shape)][c],
                                     Kmax(smp, c), order[c])
            IN  [dat.v[j] EXCEPT !.f[c] = fac,
                                 !.nan = @ \/ fac.kind = "nan"]]]

\* A buffer whose samples have been overwritten.
Clobbered(dat) ==
    [dat EXCEPT !.v = [j \in Idx(dat.shape) |-> [dat.v[j] EXCEPT !.nan = TRUE]]]

CosbellDirectionLateCheck(st, c, smp, order) ==
    IF st.raised THEN st
    ELSE IF CosbellReshapeFails(smp, st.data.shape)
         THEN [raised |-> TRUE, data |-> Clobbered(st.data)]
         ELSE [st EXCEPT !.data = CosbellScale(st.data, c, smp, order)]

\* The four statements of one direction: reshape, kmax, theta, data *= ...
CosbellDirection(st, c, smp, order) ==
    IF st.raised THEN st
    ELSE IF CosbellReshapeFails(smp, st.data.shape)
         THEN [st EXCEPT !.raised = TRUE]
         ELSE [st EXCEPT !.data = CosbellScale(st.data, c, smp, order)]

\* Readout (column 0), then phase, then slice.
run_cosbell_filter(smp, dat, order) ==
    CosbellDirection(
        CosbellDirection(
            CosbellDirection([raised |-> FALSE, data |-> dat], 1, smp, order),
            2, smp, order),
        3, smp, order)

InitCos ==
    /\ pc = "cos_call"
    /\ data \in { Unfiltered(shape) : shape \in Shapes(MaxPoints) }
    /\ data_in = data
    /\ \E n \in (Size(data.shape) - 1)..(Size(data.shape) + 1) :
         \E kinds \in [Axes -> ColumnKinds] :
            sampled = Coordinates(n, kinds)
    /\ cosbell_order \in [Axes -> 0..MaxOrder]
    /\ image = Idle /\ k_space = Idle /\ image_back = Idle
    /\ IdleZp /\ IdleHan /\ IdlePocs /\ IdleBm /\ IdleRf /\ IdleRp

CallCosbellFilter ==
    /\ pc = "cos_call"
    /\ LET st == run_cosbell_filter(sampled, data, cosbell_order)
       IN  /\ data' = st.data
           /\ pc' = IF st.raised THEN "cos_raised" ELSE "cos_done"
    /\ UNCHANGED << fftVars, zpVars, hanVars, cutVars, sampled, data_in,
                    cosbell_order, pocsVars, widgetVars >>

NextCos == CallCosbellFilter

SpecCos == InitCos /\ [][NextCos]_vars

\* C9: after a call that returns, every direction whose coordinate column
\* has maximum absolute value zero has multiplied every sample by 1, and no
\* sample of the returned k-space is NaN because of it.
CosbellZeroRangeIsNoOp ==
    pc = "cos_done" =>
        \A c \in Axes :
            Kmax(sampled, c) = 0 =>
                \A j \in Idx(data.shape) :
                    data.v[j].f[c].kind = "one" /\ ~data.v[j].nan

\* With order 0 on every zero-range direction the filter does leave the
\* samples free of NaN.
CosbellZeroRangeOrderZero ==
    (pc = "cos_done" /\ \A c \in Axes : Kmax(sampled, c) = 0 => cosbell_order[c] = 0)
        => \A j \in Idx(data.shape) : ~data.v[j].nan

\* C10: a call whose coordinate matrix has a number of rows different from
\* the number of samples of the k-space ends by raising, and the caller's
\* k-space is then what it was before the call.
CosbellRejectsBeforeWriting ==
    (pc # "cos_call" /\ sampled.rows # Size(data_in.shape)) =>
        (pc = "cos_raised" /\ data = data_in)

\* A rejected call that would have scaled the samples had it gone on.
CosbellRejectedCase ==
    /\ pc = "cos_raised"
    /\ sampled.rows = Size(data_in.shape) + 1
    /\ Size(data_in.shape) > 1
    /\ \A c \in Axes : cosbell_order[c] > 0 /\ Kmax(sampled, c) > 0

(***************************************************************************)
(* POCS reconstruction: run_pocs_reconstruction.                           *)
(*                                                                         *)
(* The call is followed through its positions: Initializing (everything    *)
(* before the loop), Iterating (one step per execution of the loop body),  *)
(* Converged or MaxIterationsReached (the break was taken), Returned, and  *)
(* Raised if an exception ends the call.  A magnitude estimate is kept as  *)
(* its shape and the number gen of the loop-body execution that computed   *)
(* it (0 for the images computed before the loop), whether it holds NaN,   *)
(* and whether it is abs(run_ifft(k_space_ref)).  The acquired k-space is  *)
(* either symbolic, with samples of non-zero values in general position,   *)
(* or blank, with every sample exactly 0.  The correlation of two          *)
(* estimates is a floating point number fixed by the data: NaN where       *)
(* np.corrcoef has NaN or no variance to work with, 1 for two equal        *)
(* images, and otherwise any of CorrelationValues.  A partial-Fourier      *)
(* fraction is kept in quarters, which floating point represents exactly,  *)
(* and n_points is the shape of the acquired k-space.                      *)
(***************************************************************************)
MaxNPoints == 4

FactorDen == 4

FactorQuarters == {2, 3, 4}

\* threshold = 1e-6, in millionths.
Threshold == 1

\* The iteration cap of the loop test.
MaxIterations == 100

\* nb_point = 2
PocsRampLength == 2

Million == 1000000

\* A corrcoef result: NaN, or a correlation in millionths.
NaN == [nan |-> TRUE, ppm |-> 0]

Corr(ppm) == [nan |-> FALSE, ppm |-> ppm]

\* NaN, a correlation exactly at the threshold and one just short of it.
CorrelationValues == {NaN, Corr(Million - 1), Corr(Million - 2)}

\* int(x) for the rational x = a / b, b > 0: truncation towards zero.
IntOfFloor(a, b) == a \div b

IntOf(a, b) == IF a >= 0 THEN a \div b ELSE -((-a) \div b)

\* factors = [float(num) for num in factors][-1::-1]
Reversed(f) == << f[3], f[2], f[1] >>

\* mm = int(n_points * factors), with the factors already reversed.
PocsMm(n, f) == [a \in Axes |-> IntOf(n[a] * Reversed(f)[a], FactorDen)]

\* m = int(n_points * factors - n_points / 2)
PocsM(n, f) ==
    [a \in Axes |-> IntOf(2 * n[a] * Reversed(f)[a] - FactorDen * n[a], 2 * FactorDen)]

Estimate(shape, gen, nan, ref) ==
    [shape |-> shape, gen |-> gen, nan |-> nan, ref |-> ref]

\* The values of the locals before their first assignment.
NoVector == << 0, 0, 0 >>

NoEstimate == Estimate(NoVector, -1, FALSE, FALSE)

NoPhase == [shape |-> NoVector, nan |-> FALSE]

\* An acquired k-space without signal.
Blank(shape) ==
    [ok |-> TRUE, shape |-> shape,
     v |-> [i \in Idx(shape) |->
              [src |-> i, zero |-> TRUE, w |-> << << >>, << >>, << >> >>]]]

\* The acquired volumes: a single voxel and a cube.
PocsShapes == { << n, n, n >> : n \in {1, MaxNPoints} }

\* A slice bound i on an axis of length n: a negative bound counts from the
\* end, and the result is clipped to the axis.
SliceBound(i, n) == IF i < 0 THEN Max(i + n, 0) ELSE Min(i, n)

\* idx0 = n_vec // 2 - m_vec, idx1 = n_vec // 2 + m_vec and the box
\* [idx0[0]:idx1[0], idx0[1]:idx1[1], idx0[2]:idx1[2]].
InCenter(j, n, m_vec) ==
    \A a \in Axes :
        /\ SliceBound(n[a] \div 2 - m_vec[a], n[a]) <= j[a]
        /\ j[a] < SliceBound(n[a] \div 2 + m_vec[a], n[a])

\* output = np.zeros(...); output[box] = k_space[box]
getCenterKSpace(ksp, m_vec) ==
    [ksp EXCEPT !.v =
        [j \in Idx(ksp.shape) |->
            IF InCenter(j, ksp.shape, m_vec)
            THEN ksp.v[j]
            ELSE [src |-> j, zero |-> TRUE, w |-> << << >>, << >>, << >> >>]]]

\* phase = img_center / abs(img_center), img_center = run_ifft(k_space_center):
\* the transform of a k-space of zeros is 0 at every voxel and 0 / 0 is NaN,
\* while a k-space with a non-zero sample in general position has no zero
\* voxel.
PhaseOf(center) ==
    [shape |-> center.shape,
     nan |-> \A j \in Idx(center.shape) : center.v[j].zero]

\* img_ref = np.abs(run_ifft(k_space_ref))
ImgRef(ksp) == Estimate(ksp.shape, 0, FALSE, TRUE)

\* np.abs(run_ifft(k_space_hanning))
ImgHanning(han, ksp) == Estimate(han.shape, 0, FALSE, han = ksp)

\* run_dfft(previous_img * phase)[j]: sample j of the forward transform of
\* the estimate times the phase map; a NaN in the product reaches every
\* sample.
Projected(prev, ph, j) ==
    [src |-> j, est |-> prev.gen, nan |-> prev.nan \/ ph.nan]

\* The sample k_space_ref[j] as a sample of k_space_new.
Acquired(ksp, j) == [src |-> ksp.v[j].src, est |-> -1, nan |-> FALSE]

\* The box [0:mm[0], 0:mm[1], 0:mm[2]].
InBoxAny(j, c) == \E a \in Axes : j[a] < c[a]

InBox(j, c) == \A a \in Axes : j[a] < c[a]

\* k_space_new = run_dfft(img_iterative), and then
\* k_space_new[0:mm[0], 0:mm[1], 0:mm[2]] = k_space_ref[0:mm[0], 0:mm[1], 0:mm[2]]
Restored(prev, ph, ksp, c) ==
    [ok |-> TRUE, shape |-> prev.shape,
     v |-> [j \in Idx(prev.shape) |->
              IF InBox(j, c) THEN Acquired(ksp, j) ELSE Projected(prev, ph, j)]]

\* img_reconstructed = np.abs(run_ifft(k_space_new))
Reconstructed(new, gen) ==
    Estimate(new.shape, gen,
             \E j \in Idx(new.shape) : new.v[j].nan,
             \A j \in Idx(new.shape) : new.v[j].est = -1)

\* The magnitude image of the acquired k-space has no variance: it has a
\* single voxel, or the k-space is blank.
NoVariance(ksp) ==
    Size(ksp.shape) = 1 \/ \A j \in Idx(ksp.shape) : ksp.v[j].zero

\* np.corrcoef(a.flatten(), b.flatten())[0, 1]
Correlations(a, b, ksp) ==
    IF a.nan \/ b.nan \/ Size(a.shape) = 1 THEN {NaN}
    ELSE IF a.ref /\ b.ref
         THEN IF NoVariance(ksp) THEN {NaN} ELSE {Corr(Million)}
         ELSE CorrelationValues

\* (1 - correlation) <= threshold; a comparison with NaN is false.
ConvergenceTest(corr) == ~corr.nan /\ Million - corr.ppm <= Threshold

\* if (1-correlation) <= threshold or num_iterations >= 100: break
LoopExit(corr, n) == ConvergenceTest(corr) \/ n >= MaxIterations

\* num_iterations += 1
NoIncrement(n) == n

NextIteration(n) == n + 1

\* return img_reconstructed
PocsResultPrevious(prev, rec) == prev

PocsResult(prev, rec) == rec

InitPocs ==
    /\ pc = "Initializing"
    /\ k_space_ref \in { Symbolic(shape) : shape \in PocsShapes }
                       \cup { Blank(shape) : shape \in PocsShapes }
    /\ n_points = k_space_ref.shape
    /\ factors \in [Axes -> FactorQuarters]
    /\ mm = NoVector /\ m = NoVector /\ nb_point = 0
    /\ kSpace_hanning = NoVolume
    /\ num_iterations = 0 /\ body_runs = 0
    /\ previous_img = NoEstimate /\ img_reconstructed = NoEstimate
    /\ returned = NoEstimate
    /\ correlation = NaN
    /\ phase = NoPhase /\ k_space_new = NoVolume
    /\ kSpace = Idle
    /\ image = Idle /\ k_space = Idle /\ image_back = Idle
    /\ IdleZp /\ IdleCos /\ IdleBm /\ IdleRf /\ IdleRp

\* Lines 387-413: mm, m, the Hanning-filtered starting estimate, the counter.
PocsInitialize ==
    /\ pc = "Initializing"
    /\ mm' = PocsMm(n_points, factors)
    /\ m' = PocsM(n_points, factors)
    /\ nb_point' = PocsRampLength
    /\ phase' = PhaseOf(getCenterKSpace(k_space_ref, m'))
    /\ kSpace_hanning' = hanning_filter(k_space_ref, mm', nb_point')
    /\ IF kSpace_hanning'.ok
       THEN /\ previous_img' = ImgHanning(kSpace_hanning', k_space_ref)
            /\ num_iterations' = 0
            /\ pc' = "Iterating"
       ELSE /\ UNCHANGED << previous_img, num_iterations >>
            /\ pc' = "Raised"
    /\ UNCHANGED << fftVars, zpVars, kSpace, cosVars, factors, k_space_ref,
                    img_reconstructed, correlation, body_runs, returned,
                    k_space_new, n_points, widgetVars >>

\* Lines 415-440: one execution of the loop body.
PocsIterate ==
    /\ pc = "Iterating"
    /\ body_runs' = Min(body_runs + 1, MaxIterations + 2)
    /\ k_space_new' = Restored(previous_img, phase, k_space_ref, mm)
    /\ img_reconstructed' = Reconstructed(k_space_new', body_runs')
    /\ correlation' \in Correlations(previous_img, img_reconstructed', k_space_ref)
    /\ IF LoopExit(correlation', num_iterations)
       THEN /\ pc' = IF ConvergenceTest(correlation')
                     THEN "Converged" ELSE "MaxIterationsReached"
            /\ UNCHANGED << previous_img, num_iterations >>
       ELSE /\ previous_img' = img_reconstructed'
            /\ num_iterations' = NextIteration(num_iterations)
            /\ pc' = "Iterating"
    /\ UNCHANGED << fftVars, zpVars, hanVars, cutVars, cosVars, factors,
                    k_space_ref, m, returned, phase, n_points, widgetVars >>

\* Lines 442-447: the correlation with the reference image and the return.
PocsReturn ==
    /\ pc \in {"Converged", "MaxIterationsReached"}
    /\ correlation' \in Correlations(ImgRef(k_space_ref), img_reconstructed,
                                    k_space_ref)
    /\ returned' = PocsResult(previous_img, img_reconstructed)
    /\ pc' = "Returned"
    /\ UNCHANGED << fftVars, zpVars, hanVars, cutVars, cosVars, factors,
                    k_space_ref, m, num_iterations, previous_img,
                    img_reconstructed, body_runs, phase, k_space_new,
                    n_points, widgetVars >>

NextPocs == PocsInitialize \/ PocsIterate \/ PocsReturn

SpecPocs == InitPocs /\ [][NextPocs]_vars

\* The step out of Initializing, told by the position alone.
LeaveInitializing == pc = "Initializing" /\ pc' \in {"Iterating", "Raised"}

\* The interpreter keeps executing the call: a step that can be taken is
\* taken.
SpecPocsFair ==
    SpecPocs /\ WF_pc(LeaveInitializing) /\ WF_vars(PocsIterate \/ PocsReturn)

\* C2: every call of run_pocs_reconstruction eventually returns, and what
\* it returns has the shape of the acquired k-space.
PocsReturnsFullShape ==
    <>(pc = "Returned" /\ returned.shape = k_space_ref.shape)

\* A call that returned although the convergence test never passed.
PocsReturnedAtCap ==
    /\ pc = "Returned"
    /\ num_iterations = MaxIterations
    /\ body_runs = MaxIterations + 1
    /\ returned.shape = k_space_ref.shape

\* C3: in one call the loop body is executed at most 100 times.
PocsBodyAtMostCap ==
    body_runs <= MaxIterations

\* The loop body is executed at most 101 times, for the counter values 0
\* to 100.
PocsBodyAtMostCapPlusOne ==
    body_runs <= MaxIterations + 1

\* C4: Initializing is always followed by Iterating; Iterating is left only
\* for Converged, when (1 - correlation) <= 1e-6, or for
\* MaxIterationsReached, when the counter has reached 100 (and is not left
\* otherwise); no exception ends the call; after a terminal state the loop
\* body does not run again, and the value returned is the estimate the last
\* executed iteration computed.
PocsStateMachine ==
    [][ /\ pc = "Initializing" => pc' = "Iterating"
        /\ pc = "Iterating" =>
              /\ pc' \in {"Iterating", "Converged", "MaxIterationsReached"}
              /\ pc' = "Converged" => ConvergenceTest(correlation')
              /\ pc' = "MaxIterationsReached" =>
                    (num_iterations' >= MaxIterations /\ ~ConvergenceTest(correlation'))
              /\ pc' = "Iterating" =>
                    (num_iterations < MaxIterations /\ ~ConvergenceTest(correlation'))
        /\ pc \in {"Converged", "MaxIterationsReached"} =>
              /\ pc' = "Returned"
              /\ body_runs' = body_runs
              /\ returned' = img_reconstructed
              /\ returned'.gen = body_runs /\ body_runs >= 1
        /\ pc = "Returned" => pc' = "Returned"
      ]_vars

\* A call that returned from Converged after more than one iteration.
PocsConvergedCase ==
    /\ pc = "Returned"
    /\ body_runs = 3 /\ num_iterations = 2
    /\ returned.gen = 3 /\ previous_img.gen = 2

\* C12: when the acquired k-space is fully sampled (mm equals n_points on
\* all three axes) the call stops with iteration count 0 or 1 and returns
\* the magnitude of the inverse transform of the acquired k-space.
PocsFullSamplingStopsAtOnce ==
    (pc = "Returned" /\ \A a \in Axes : mm[a] = k_space_ref.shape[a]) =>
        /\ num_iterations \in {0, 1}
        /\ returned.ref /\ ~returned.nan

\* A fully sampled call always returns that magnitude image; it stops at
\* once when the image has some variance.
PocsFullSamplingReturnsReference ==
    (pc = "Returned" /\ \A a \in Axes : mm[a] = k_space_ref.shape[a]) =>
        /\ returned.ref /\ ~returned.nan
        /\ ~NoVariance(k_space_ref) => num_iterations = 0

\* C14: the phase map has magnitude 1 at every voxel, also where the
\* phase-reference image is exactly zero, so that no NaN enters the phase
\* map or the magnitude estimates.
PocsPhaseIsUnit ==
    pc # "Initializing" =>
        ~phase.nan /\ ~previous_img.nan /\ ~img_reconstructed.nan

\* The phase map is free of NaN when the centre box holds a non-zero sample.
PocsPhaseIsUnitOnSignal ==
    (pc # "Initializing"
        /\ \E j \in Idx(k_space_ref.shape) :
              InCenter(j, k_space_ref.shape, m) /\ ~k_space_ref.v[j].zero)
        => ~phase.nan

\* C15: in every iteration the k-space that is inverse-transformed into the
\* new estimate holds the acquired sample at every index inside the box
\* [0:mm[0], 0:mm[1], 0:mm[2]] and the forward transform of (previous
\* estimate times phase map) at every index outside it, and the acquired
\* k-space, the phase map and mm are what they were before the iteration.
PocsDataConsistency ==
    [][ pc = "Iterating" =>
          /\ \A j \in Idx(k_space_ref.shape) :
                IF j[1] < mm[1] /\ j[2] < mm[2] /\ j[3] < mm[3]
                THEN /\ k_space_new'.v[j].est = -1
                     /\ k_space_new'.v[j].src = k_space_ref.v[j].src
                ELSE /\ k_space_new'.v[j].est = previous_img.gen
                     /\ k_space_new'.v[j].src = j
          /\ img_reconstructed'.gen = body_runs'
          /\ img_reconstructed'.ref = (\A j \in Idx(k_space_ref.shape) :
                                          k_space_new'.v[j].est = -1)
          /\ k_space_ref' = k_space_ref /\ phase' = phase /\ mm' = mm
      ]_vars

\* A second iteration whose k-space has samples on both sides of the box.
PocsPartialBoxCase ==
    /\ pc = "Iterating" /\ body_runs = 2
    /\ ~phase.nan
    /\ \E j \in Idx(k_space_new.shape) : k_space_new.v[j].est = -1
    /\ \E j \in Idx(k_space_new.shape) : k_space_new.v[j].est = 1

(***************************************************************************)
(* The index vectors of run_pocs_reconstruction, lines 388-390, on their   *)
(* own: every axis length up to MaxIndexN and every fraction in quarters.  *)
(***************************************************************************)
MaxIndexN == 3

InitIndices ==
    /\ pc = "indices_call"
    /\ n_points \in Shapes(MaxIndexN)
    /\ factors \in [Axes -> 1..FactorDen]
    /\ mm = NoVector /\ m = NoVector
    /\ k_space_ref = Idle /\ num_iterations = Idle /\ previous_img = Idle
    /\ img_reconstructed = Idle /\ correlation = Idle /\ body_runs = Idle
    /\ returned = Idle /\ phase = Idle /\ k_space_new = Idle
    /\ nb_point = Idle
    /\ image = Idle /\ k_space = Idle /\ image_back = Idle
    /\ IdleZp /\ IdleHan /\ IdleCos /\ IdleBm /\ IdleRf /\ IdleRp

\* mm = np.array([int(num) for num in (n_points * factors)]) and
\* m = np.array([int(num) for num in (n_points * factors - n_points / 2)])
ComputeIndices ==
    /\ pc = "indices_call"
    /\ mm' = PocsMm(n_points, factors)
    /\ m' = PocsM(n_points, factors)
    /\ pc' = "indices_done"
    /\ UNCHANGED << fftVars, zpVars, hanVars, nb_point, cosVars, factors,
                    k_space_ref, num_iterations, previous_img,
                    img_reconstructed, correlation, body_runs, returned,
                    phase, k_space_new, n_points, widgetVars >>

NextIndices == ComputeIndices

SpecIndices == InitIndices /\ [][NextIndices]_vars

\* n * f of axis a in quarters, and n * f - n / 2 in eighths; axis a of
\* n_points (index a - 1 in the source) goes with factors[2 - (a - 1)].
QuartersOf(a) == n_points[a] * factors[4 - a]

EighthsOf(a) == 2 * n_points[a] * factors[4 - a] - FactorDen * n_points[a]

\* C13: for every axis length n and every factor f in (0, 1], mm is n * f
\* rounded to the nearest integer and m is (n * f - n / 2) rounded to the
\* nearest integer, the factor of axis i being factors[2 - i].
IndicesRoundToNearest ==
    pc = "indices_done" =>
        \A a \in Axes :
            /\ 2 * Abs(FactorDen * mm[a] - QuartersOf(a)) <= FactorDen
            /\ 2 * Abs(2 * FactorDen * m[a] - EighthsOf(a)) <= 2 * FactorDen

\* C13 as the code has it: mm is n * f and m is (n * f - n / 2) with the
\* fractional part dropped, which is rounding towards zero, the factor of
\* axis i being factors[2 - i].
IndicesTruncateTowardsZero ==
    pc = "indices_done" =>
        \A a \in Axes :
            /\ mm[a] >= 0
            /\ FactorDen * mm[a] <= QuartersOf(a)
            /\ QuartersOf(a) < FactorDen * (mm[a] + 1)
            /\ IF EighthsOf(a) >= 0
               THEN /\ m[a] >= 0
                    /\ 2 * FactorDen * m[a] <= EighthsOf(a)
                    /\ EighthsOf(a) < 2 * FactorDen * (m[a] + 1)
               ELSE /\ m[a] <= 0
                    /\ 2 * FactorDen * (m[a] - 1) < EighthsOf(a)
                    /\ EighthsOf(a) <= 2 * FactorDen * m[a]

\* Indices computed where truncation and rounding to nearest part: n * f is
\* more than a half above mm on one axis and n * f - n / 2 is a negative
\* fraction on another, with three different factors.
IndicesTruncationCase ==
    /\ pc = "indices_done"
    /\ \E a \in Axes : 2 * (QuartersOf(a) - FactorDen * mm[a]) > FactorDen
    /\ \E a \in Axes : EighthsOf(a) < 0 /\ EighthsOf(a) % (2 * FactorDen) # 0
    /\ factors[1] # factors[2] /\ factors[2] # factors[3] /\ factors[1] # factors[3]

(***************************************************************************)
(* Denoiser: run_bm4d_filter.                                              *)
(*                                                                         *)
(* The image enters through the one number that matters to the noise       *)
(* level: estimated, the value 4 * block_std_devs[min_mean_index] that the *)
(* block statistics of lines 189-207 yield for it.                         *)
(***************************************************************************)
MaxStd == 9

\* sigma_psd=5
SigmaPsd == 5

InitBm4d ==
    /\ pc = "bm4d_call"
    /\ std_in \in 0..MaxStd
    /\ estimated \in 0..MaxStd
    /\ std = std_in
    /\ sigma_psd = Idle
    /\ image = Idle /\ k_space = Idle /\ image_back = Idle
    /\ IdleZp /\ IdleHan /\ IdleCos /\ IdlePocs /\ IdleRf /\ IdleRp

\* if std==0: ... std = 4 * block_std_devs[min_mean_index]
EstimateIfZero(s, e) == IF s = 0 THEN e ELSE s

\* Lines 184-222: the rescaling, the estimate, the call of bm4d.bm4d.
CallBm4dFilter ==
    /\ pc = "bm4d_call"
    /\ std' = EstimateIfZero(std, estimated)
    /\ sigma_psd' = SigmaPsd
    /\ pc' = "bm4d_done"
    /\ UNCHANGED << fftVars, zpVars, hanVars, cutVars, cosVars, pocsVars,
                    std_in, estimated, rfVars, rpVars >>

NextBm4d == CallBm4dFilter

SpecBm4d == InitBm4d /\ [][NextBm4d]_vars

\* C11: the noise level handed to the block-matching filter is the caller's
\* std when that is not 0 and the value of the block estimator when it is
\* 0, so that two calls with different non-zero std run the filter with
\* different noise levels.
Bm4dUsesNoiseLevel ==
    pc = "bm4d_done" =>
        sigma_psd = IF std_in = 0 THEN estimated ELSE std_in

\* The local std does hold that value when the filter is called; the
\* filter is handed the constant.
Bm4dNoiseLevelIsFixed ==
    pc = "bm4d_done" =>
        /\ std = (IF std_in = 0 THEN estimated ELSE std_in)
        /\ sigma_psd = SigmaPsd

(***************************************************************************)
(* RF hardware widget: RfWidget.                                           *)
(*                                                                         *)
(* The text of a box is kept as the number it spells, in thousandths, and  *)
(* whether it is a plain integer literal, which is what int() accepts.     *)
(* The texts typed as coil identifier and efficiency are the numerals of   *)
(* Texts.  An entry of added_rfs carries, besides its two texts, the       *)
(* number of the row it was appended with; the code has no such field,     *)
(* and nothing in the model reads it except the properties.  A row of      *)
(* dynamic_container is kept with the texts of its two labels and whether  *)
(* its widgets are still there.  antenna_dict holds the entries the widget *)
(* has written, as (name, value) pairs.                                    *)
(***************************************************************************)
MaxRows == 2

MaxEdits == 1

Texts == {1, 2}

\* The text of an empty box.
Empty == 0

Labels ==
    << "RF de-blanking time (us)", "RF dead time (us)", "Larmor frequency (MHz)",
       "Reference time (us)", "Oversampling factor", "Max readout points",
       "Add readout points", "LNA gain (dB)", "RF gain min (dB)",
       "RF gain max (dB)" >>

LabelSet == { Labels[i] : i \in 1..Len(Labels) }

Text(milli, plain) == [milli |-> milli, plain |-> plain]

\* values = ["15", "400", "3.066", "70", "5", "1e5", "5", "45", "45", "76"]
Values ==
    << Text(15000, TRUE), Text(400000, TRUE), Text(3066, FALSE),
       Text(70000, TRUE), Text(5000, TRUE), Text(100000000, FALSE),
       Text(5000, TRUE), Text(45000, TRUE), Text(45000, TRUE),
       Text(76000, TRUE) >>

\* self.input_boxes[label] = QLineEdit(value)
DefaultBoxes ==
    [l \in LabelSet |-> Values[CHOOSE i \in 1..Len(Labels) : Labels[i] = l]]

\* What a user types into the box of label l: its first text, that text
\* plus one, or that text plus a half.
BoxTexts(l) ==
    { DefaultBoxes[l],
      Text(DefaultBoxes[l].milli + 1000, DefaultBoxes[l].plain),
      Text(DefaultBoxes[l].milli + 500, FALSE) }

\* float(text), in thousandths.
FloatText(t) == t.milli

\* int(text) raises ValueError unless the text is a plain integer literal.
IntTextRaises(t) == ~t.plain

IntText(t) == t.milli \div 1000

\* int(float(text))
IntFloatText(t) == IntOf(t.milli, 1000)

\* The fields of hw before the widget has set them.
HwUnset ==
    [blkTime |-> 0, deadTime |-> 0, larmorFreq |-> 0, oversamplingFactor |-> 0,
     maxRdPoints |-> 0, addRdPoints |-> 0, reference_time |-> 0, lnaGain |-> 0,
     rf_min_gain |-> 0, rf_max_gain |-> 0]

\* Lines 99-101.
HwFirst(b, h) ==
    [h EXCEPT !.blkTime = FloatText(b["RF de-blanking time (us)"]),
              !.deadTime = FloatText(b["RF dead time (us)"]),
              !.larmorFreq = FloatText(b["Larmor frequency (MHz)"])]

\* Lines 102-103.
HwSecond(b, h) ==
    [h EXCEPT !.oversamplingFactor = IntText(b["RF dead time (us)"]),
              !.maxRdPoints = IntFloatText(b["Max readout points"])]

\* Lines 104-108.
HwThird(b, h) ==
    [h EXCEPT !.addRdPoints = IntText(b["Add readout points"]),
              !.reference_time = FloatText(b["Reference time (us)"]),
              !.lnaGain = FloatText(b["LNA gain (dB)"]),
              !.rf_min_gain = FloatText(b["RF gain min (dB)"]),
              !.rf_max_gain = FloatText(b["RF gain max (dB)"])]

\* hw.antenna_dict[rf_name] = rf_value
Put(dict, name, value) == { p \in dict : p[1] # name } \cup { << name, value >> }

\* for rf_id, rf_eff in self.added_rfs: ..., from position i on.
RECURSIVE AntennaLoop(_, _, _)
AntennaLoop(dict, list, i) ==
    IF i > Len(list) THEN dict
    ELSE AntennaLoop(Put(dict, list[i].id, list[i].eff), list, i + 1)

\* update_hw_config_rf: the fields, the dictionary and whether int() raised.
update_hw_config_rf(b, h, dict, list) ==
    IF IntTextRaises(b["RF dead time (us)"])
    THEN [hw |-> HwFirst(b, h), dict |-> dict, raised |-> TRUE]
    ELSE IF IntTextRaises(b["Add readout points"])
         THEN [hw |-> HwSecond(b, HwFirst(b, h)), dict |-> dict, raised |-> TRUE]
         ELSE [hw |-> HwThird(b, HwSecond(b, HwFirst(b, h))),
               dict |-> AntennaLoop(dict, list, 1), raised |-> FALSE]

Entry(id, eff, row) == [id |-> id, eff |-> eff, row |-> row]

Row(id, eff) == [id |-> id, eff |-> eff, alive |-> TRUE]

Op(kind, row, raised) == [kind |-> kind, row |-> row, raised |-> raised]

\* list.pop(i - 1)
RemoveAt(list, i) == SubSeq(list, 1, i - 1) \o SubSeq(list, i + 1, Len(list))

\* The loop of delete_rf from position i on: the list it leaves and whether
\* the second pop raised IndexError.
RECURSIVE DeleteLoop(_, _, _)
DeleteLoop(list, i, text) ==
    IF i > Len(list)
    THEN [list |-> list, raised |-> FALSE]
    ELSE IF text = list[i].eff
         THEN IF text = list[i].id
              THEN IF i <= Len(list) - 1
                   THEN [list |-> RemoveAt(RemoveAt(list, i), i), raised |-> FALSE]
                   ELSE [list |-> RemoveAt(list, i), raised |-> TRUE]
              ELSE [list |-> RemoveAt(list, i), raised |-> FALSE]
         ELSE IF text = list[i].id
              THEN DeleteLoop(RemoveAt(list, i), i + 1, text)
              ELSE DeleteLoop(list, i + 1, text)

NoRfFile == [exists |-> FALSE, boxes |-> DefaultBoxes, coils |-> << >>]

\* The number of boxes whose text is not the first one.
Edited(b) == Cardinality({ l \in LabelSet : b[l] # DefaultBoxes[l] })

\* The widget after its construction on a machine without configs/hw_rf.csv.
InitRf ==
    /\ pc = "rf_ready"
    /\ added_rfs = << >> /\ rf_rows = << >>
    /\ input_boxes = DefaultBoxes
    /\ hw = update_hw_config_rf(DefaultBoxes, HwUnset, {}, << >>).hw
    /\ antenna_dict = {}
    /\ rf_op = Op("init", 0, FALSE)
    /\ rf_file = NoRfFile
    /\ image = Idle /\ k_space = Idle /\ image_back = Idle
    /\ IdleZp /\ IdleHan /\ IdleCos /\ IdlePocs /\ IdleBm /\ IdleRp

\* add_rf with the two texts typed into the boxes.
add_rf(rf_identifier, rf_efficiency) ==
    /\ pc = "rf_ready"
    /\ Len(rf_rows) < MaxRows
    /\ IF rf_identifier # Empty /\ rf_efficiency # Empty
       THEN /\ rf_rows' = Append(rf_rows, Row(rf_identifier, rf_efficiency))
            /\ added_rfs' = Append(added_rfs,
                   Entry(rf_identifier, rf_efficiency, Len(rf_rows) + 1))
            /\ rf_op' = Op("add", Len(rf_rows) + 1, FALSE)
       ELSE UNCHANGED << rf_rows, added_rfs, rf_op >>
    /\ UNCHANGED << pc, fftVars, zpVars, hanVars, cutVars, cosVars, pocsVars,
                    bmVars, antenna_dict, input_boxes, hw, rf_file, rpVars >>

\* delete_rf(row_layout), row_layout being row number r.
delete_rf(r) ==
    /\ pc = "rf_ready"
    /\ rf_rows[r].alive
    /\ added_rfs' = DeleteLoop(added_rfs, 1, rf_rows[r].id).list
    /\ rf_op' = Op("delete", r, DeleteLoop(added_rfs, 1, rf_rows[r].id).raised)
    /\ rf_rows' = IF rf_op'.raised THEN rf_rows
                  ELSE [rf_rows EXCEPT ![r].alive = FALSE]
    /\ UNCHANGED << pc, fftVars, zpVars, hanVars, cutVars, cosVars, pocsVars,
                    bmVars, antenna_dict, input_boxes, hw, rf_file, rpVars >>

\* The rows save_rf_entries writes for the coils.
CoilRows(list) == [i \in 1..Len(list) |-> << list[i].id, list[i].eff >>]

save_rf_entries ==
    /\ pc = "rf_ready"
    /\ rf_file' = [exists |-> TRUE, boxes |-> input_boxes,
                   coils |-> CoilRows(added_rfs)]
    /\ hw' = update_hw_config_rf(input_boxes, hw, antenna_dict, added_rfs).hw
    /\ antenna_dict' =
           update_hw_config_rf(input_boxes, hw, antenna_dict, added_rfs).dict
    /\ rf_op' = Op("save", 0,
           update_hw_config_rf(input_boxes, hw, antenna_dict, added_rfs).raised)
    /\ UNCHANGED << pc, fftVars, zpVars, hanVars, cutVars, cosVars, pocsVars,
                    bmVars, added_rfs, rf_rows, input_boxes, rpVars >>

\* The user replaces the text of an input box.
edit_box(l, t) ==
    /\ pc = "rf_ready"
    /\ t # input_boxes[l]
    /\ Edited([input_boxes EXCEPT ![l] = t]) <= MaxEdits
    /\ input_boxes' = [input_boxes EXCEPT ![l] = t]
    /\ rf_op' = Op("edit", 0, FALSE)
    /\ UNCHANGED << pc, fftVars, zpVars, hanVars, cutVars, cosVars, pocsVars,
                    bmVars, added_rfs, rf_rows, antenna_dict, hw, rf_file,
                    rpVars >>

\* The entries load_rf_entries appends for the coil rows of the file.
LoadedRfs(coils) ==
    [i \in 1..Len(coils) |-> Entry(coils[i][1], coils[i][2], i)]

LoadedRfRows(coils) == [i \in 1..Len(coils) |-> Row(coils[i][1], coils[i][2])]

\* The application is started again: __init__ with load_rf_entries and
\* update_hw_config_rf, on the hw module as imported.
construct_rf ==
    /\ pc = "rf_ready"
    /\ rf_file.exists
    /\ input_boxes' = rf_file.boxes
    /\ added_rfs' = LoadedRfs(rf_file.coils)
    /\ rf_rows' = LoadedRfRows(rf_file.coils)
    /\ hw' = update_hw_config_rf(input_boxes', HwUnset, {}, added_rfs').hw
    /\ antenna_dict' = update_hw_config_rf(input_boxes', HwUnset, {}, added_rfs').dict
    /\ rf_op' = Op("init", 0,
           update_hw_config_rf(input_boxes', HwUnset, {}, added_rfs').raised)
    /\ pc' = IF rf_op'.raised THEN "rf_failed" ELSE "rf_ready"
    /\ UNCHANGED << fftVars, zpVars, hanVars, cutVars, cosVars, pocsVars,
                    bmVars, rf_file, rpVars >>

NextRf ==
    \/ \E id \in Texts \cup {Empty}, eff \in Texts \cup {Empty} : add_rf(id, eff)
    \/ \E r \in 1..Len(rf_rows) : delete_rf(r)
    \/ save_rf_entries
    \/ construct_rf

SpecRf == InitRf /\ [][NextRf]_vars

NextRfConfig ==
    \/ \E l \in LabelSet : \E t \in BoxTexts(l) : edit_box(l, t)
    \/ save_rf_entries
    \/ construct_rf

SpecRfConfig == InitRf /\ [][NextRfConfig]_vars

\* The list without the entry appended with row r.
WithoutRow(list, r) == SelectSeq(list, LAMBDA e : e.row # r)

\* C16: whatever was added before, identifiers and efficiencies repeating
\* or an identifier being the efficiency text of another entry, delete_rf
\* removes from added_rfs exactly one entry, that of the row whose button
\* was pressed, and leaves the other entries as they were and in order.
RfDeleteRemovesOwnEntry ==
    [][ rf_op'.kind = "delete" =>
          /\ \E i \in 1..Len(added_rfs) : added_rfs[i].row = rf_op'.row
          /\ added_rfs' = WithoutRow(added_rfs, rf_op'.row)
      ]_vars

\* delete_rf does so when no text of the pressed row's identifier occurs
\* anywhere else in the list, nor as its own efficiency.
RfDeleteRemovesOwnEntryIfUnique ==
    [][ (/\ rf_op'.kind = "delete"
         /\ \E i \in 1..Len(added_rfs) : added_rfs[i].row = rf_op'.row
         /\ \A i \in 1..Len(added_rfs) :
               /\ added_rfs[i].eff # rf_rows[rf_op'.row].id
               /\ added_rfs[i].row # rf_op'.row
                     => added_rfs[i].id # rf_rows[rf_op'.row].id)
          => added_rfs' = WithoutRow(added_rfs, rf_op'.row)
      ]_vars

\* C18: once save_rf_entries has run, the coil entries the widget has
\* written into hw.antenna_dict are exactly those of added_rfs: a coil that
\* was deleted before the save and not added again has no entry left.
RfSaveMirrorsList ==
    (pc = "rf_ready" /\ rf_op.kind = "save" /\ ~rf_op.raised) =>
        /\ { p[1] : p \in antenna_dict }
               = { added_rfs[i].id : i \in 1..Len(added_rfs) }
        /\ \A p \in antenna_dict :
               \E i \in 1..Len(added_rfs) :
                   added_rfs[i].id = p[1] /\ added_rfs[i].eff = p[2]

\* After a save every coil of added_rfs does have its entry.
RfSaveCoversList ==
    (pc = "rf_ready" /\ rf_op.kind = "save" /\ ~rf_op.raised) =>
        \A i \in 1..Len(added_rfs) :
            \E p \in antenna_dict : p[1] = added_rfs[i].id

\* C19: after update_hw_config_rf every field of hw holds the value of the
\* input box of its own label; in particular hw.oversamplingFactor is the
\* integer value of the "Oversampling factor" box.
RfHwMirrorsBoxes ==
    (pc = "rf_ready" /\ rf_op.kind \in {"init", "save"} /\ ~rf_op.raised) =>
        /\ hw.blkTime = FloatText(input_boxes["RF de-blanking time (us)"])
        /\ hw.deadTime = FloatText(input_boxes["RF dead time (us)"])
        /\ hw.larmorFreq = FloatText(input_boxes["Larmor frequency (MHz)"])
        /\ hw.oversamplingFactor = IntText(input_boxes["Oversampling factor"])
        /\ hw.maxRdPoints = IntFloatText(input_boxes["Max readout points"])
        /\ hw.addRdPoints = IntText(input_boxes["Add readout points"])
        /\ hw.reference_time = FloatText(input_boxes["Reference time (us)"])
        /\ hw.lnaGain = FloatText(input_boxes["LNA gain (dB)"])
        /\ hw.rf_min_gain = FloatText(input_boxes["RF gain min (dB)"])
        /\ hw.rf_max_gain = FloatText(input_boxes["RF gain max (dB)"])

\* Every field but hw.oversamplingFactor does hold the value of its own
\* box, and that one holds the integer value of the "RF dead time (us)" box.
RfHwMirrorsBoxesButOne ==
    (pc = "rf_ready" /\ rf_op.kind \in {"init", "save"} /\ ~rf_op.raised) =>
        /\ hw.blkTime = FloatText(input_boxes["RF de-blanking time (us)"])
        /\ hw.deadTime = FloatText(input_boxes["RF dead time (us)"])
        /\ hw.larmorFreq = FloatText(input_boxes["Larmor frequency (MHz)"])
        /\ hw.oversamplingFactor = IntText(input_boxes["RF dead time (us)"])
        /\ hw.maxRdPoints = IntFloatText(input_boxes["Max readout points"])
        /\ hw.addRdPoints = IntText(input_boxes["Add readout points"])
        /\ hw.reference_time = FloatText(input_boxes["Reference time (us)"])
        /\ hw.lnaGain = FloatText(input_boxes["LNA gain (dB)"])
        /\ hw.rf_min_gain = FloatText(input_boxes["RF gain min (dB)"])
        /\ hw.rf_max_gain = FloatText(input_boxes["RF gain max (dB)"])

(***************************************************************************)
(* Red Pitaya widget: RpWidget.                                            *)
(*                                                                         *)
(* An identifier is kept as the number n that "RP-n" shows, whether the    *)
(* entry holds it as the counter value or as the text read from the file.  *)
(* The addresses typed are the texts of Addresses.  As in the RF widget an *)
(* entry carries the number of the row it was appended with.               *)
(***************************************************************************)
MaxRpRows == 3

Addresses == {1, 2}

NoRpFile == [exists |-> FALSE, rps |-> << >>]

\* The widget after its construction on a machine without
\* ../configs/hw_redpitayas.csv.
InitRp ==
    /\ pc = "rp_ready"
    /\ rp_counter = 1
    /\ added_rps = << >> /\ rp_rows = << >>
    /\ rp_ip_list = << >>
    /\ rp_file = NoRpFile
    /\ image = Idle /\ k_space = Idle /\ image_back = Idle
    /\ IdleZp /\ IdleHan /\ IdleCos /\ IdlePocs /\ IdleBm /\ IdleRf

RpEntry(id, ip, row) == [id |-> id, ip |-> ip, row |-> row]

RpRow(id, ip) == [id |-> id, ip |-> ip, alive |-> TRUE]

\* add_rp with the text typed into the box.
add_rp(text) ==
    /\ pc = "rp_ready"
    /\ Len(rp_rows) < MaxRpRows
    /\ IF text # Empty
       THEN /\ rp_rows' = Append(rp_rows, RpRow(rp_counter, text))
            /\ added_rps' = Append(added_rps,
                   RpEntry(rp_counter, text, Len(rp_rows) + 1))
            /\ rp_counter' = rp_counter + 1
       ELSE UNCHANGED << rp_rows, added_rps, rp_counter >>
    /\ UNCHANGED << pc, fftVars, zpVars, hanVars, cutVars, cosVars, pocsVars,
                    bmVars, rfVars, rp_ip_list, rp_file >>

\* The loop of delete_rp from position i on: the first entry whose
\* identifier shows as the row's label is popped.
RECURSIVE RpDeleteLoop(_, _, _)
RpDeleteLoop(list, i, id) ==
    IF i > Len(list) THEN list
    ELSE IF list[i].id = id THEN RemoveAt(list, i)
         ELSE RpDeleteLoop(list, i + 1, id)

\* delete_rp(row_layout), row_layout being row number r.
delete_rp(r) ==
    /\ pc = "rp_ready"
    /\ rp_rows[r].alive
    /\ added_rps' = RpDeleteLoop(added_rps, 1, rp_rows[r].id)
    /\ rp_rows' = [rp_rows EXCEPT ![r].alive = FALSE]
    /\ UNCHANGED << pc, fftVars, zpVars, hanVars, cutVars, cosVars, pocsVars,
                    bmVars, rfVars, rp_counter, rp_ip_list, rp_file >>

save_to_csv ==
    /\ pc = "rp_ready"
    /\ rp_file' = [exists |-> TRUE,
                   rps |-> [i \in 1..Len(added_rps) |->
                              << added_rps[i].id, added_rps[i].ip >>]]
    /\ UNCHANGED << pc, fftVars, zpVars, hanVars, cutVars, cosVars, pocsVars,
                    bmVars, rfVars, added_rps, rp_rows, rp_counter, rp_ip_list >>

\* The application is started again: __init__ with load_rp and
\* update_hw_config_rp.
construct_rp ==
    /\ pc = "rp_ready"
    /\ rp_file.exists
    /\ rp_counter' = 1
    /\ added_rps' = [i \in 1..Len(rp_file.rps) |->
                        RpEntry(rp_file.rps[i][1], rp_file.rps[i][2], i)]
    /\ rp_rows' = [i \in 1..Len(rp_file.rps) |->
                      RpRow(rp_file.rps[i][1], rp_file.rps[i][2])]
    /\ rp_ip_list' = [i \in 1..Len(rp_file.rps) |-> rp_file.rps[i][2]]
    /\ UNCHANGED << pc, fftVars, zpVars, hanVars, cutVars, cosVars, pocsVars,
                    bmVars, rfVars, rp_file >>

NextRp ==
    \/ \E text \in Addresses \cup {Empty} : add_rp(text)
    \/ \E r \in 1..Len(rp_rows) : delete_rp(r)
    \/ save_to_csv
    \/ construct_rp

SpecRp == InitRp /\ [][NextRp]_vars

\* C17: after any sequence of load_rp at construction, add_rp and
\* delete_rp, no two entries of added_rps have the same RP-n identifier.
RpIdentifiersDistinct ==
    \A i, j \in 1..Len(added_rps) :
        i # j => added_rps[i].id # added_rps[j].id

\* The identifiers are distinct as long as no file holding an entry has
\* been written.
RpIdentifiersDistinctUnloaded ==
    (~rp_file.exists \/ rp_file.rps = << >>) => RpIdentifiersDistinct

====
